---- MODULE Spec2Model ----
(***************************************************************************)
(* A model of dbsavr's scheduling-and-retention engine:                    *)
(*   - SchedulerService (scheduler_service.py): start/stop, the scheduler  *)
(*     loop thread, the per-run backup threads and the active-run set;     *)
(*   - BackupService (backup_service.py): schedule lookup and the          *)
(*     perform_backup workflow;                                            *)
(*   - S3Storage (storage.py): key construction and cleanup_old_backups.   *)
(*                                                                         *)
(* Strings that the code concatenates or prefix-matches (names, prefixes,  *)
(* object keys) are sequences of one-character strings, so that            *)
(* os.path.join and the object store's Prefix filter are computed          *)
(* character by character.  Python's None and "" (both falsy wherever the  *)
(* code tests a prefix) are the empty sequence.                            *)
(*                                                                         *)
(* Time is counted in minutes since 2024-01-01T00:00 (a Monday); a cron    *)
(* field is the set of values it admits, which is what crontab's parser    *)
(* expands a field to.                                                     *)
(***************************************************************************)
EXTENDS Integers, Sequences, FiniteSets, TLC

VARIABLES
    schedules,        \* config.schedules: the registry, fixed after load
    now,              \* the wall clock (datetime.now()), in minutes
    stop_event,       \* SchedulerService._stop_event
    active_backups,   \* SchedulerService._active_backups
    loop_pc,          \* SchedulerService._scheduler_thread and its position
    next_runs,        \* _scheduler_loop: next_runs, an insertion-ordered dict
    loop_now,         \* _scheduler_loop: now, read once per tick
    items,            \* _scheduler_loop: what is left of list(next_runs.items())
    cur,              \* _scheduler_loop: db_name between _run_backup and _update_next_run
    threads,          \* the backup threads started by _run_backup, per db_name
    ctl_pc,           \* the caller of start_scheduler/stop_scheduler
    stop_result,      \* what the last stop_scheduler call returned
    skipped,          \* history: the db_names whose due entry a tick passed over
    remove_failed,    \* history: a finally-clause remove() raised KeyError
    bucket,           \* the object store: a set of [Key, LastModified]
    cl,               \* the state of one cleanup_old_backups call
    call              \* the last call of a service method and what it gave

vars == <<schedules, now, stop_event, active_backups, loop_pc, next_runs,
          loop_now, items, cur, threads, ctl_pc, stop_result, skipped,
          remove_failed, bucket, cl, call>>

sched_vars == <<schedules, now, stop_event, active_backups, loop_pc, next_runs,
                loop_now, items, cur, threads, ctl_pc, stop_result, skipped,
                remove_failed>>

store_vars == <<bucket, cl, call>>

-----------------------------------------------------------------------------
(* Bounds of the model *)

\* the clock stops advancing here
MaxTime == 3

\* number of objects a bucket of the cleanup specification holds at most
MaxObjects == 3

\* largest page the paginator hands out
MaxPageSize == 2

-----------------------------------------------------------------------------
(* Values *)

None == <<>>

NoIndex == -1

DB1 == <<"d", "1">>

DB10 == <<"d", "1", "0">>

DB2 == <<"d", "2">>

\* a database name that schedules use and config.databases does not have
DB3 == <<"d", "3">>

\* config.s3.prefix
BasePrefix == <<"b">>

\* schedule prefixes: "daily", "daily2" and "weekly"
Daily == <<"x">>

Daily2 == <<"x", "2">>

Weekly == <<"y">>

\* backup file names
FileF == <<"f">>

FileG == <<"g">>

\* config.databases: the configured data sources
databases == {DB1, DB10, DB2}

\* the retention of the default schedule
RetentionDefault == 30

\* timedelta(days=1), in minutes
MinutesPerDay == 1440

-----------------------------------------------------------------------------
(* Sequence helpers *)

Min(S) == CHOOSE x \in S : \A y \in S : x <= y

Range(s) == {s[i] : i \in 1..Len(s)}

\* str.startswith
StartsWith(s, p) == Len(p) <= Len(s) /\ SubSeq(s, 1, Len(p)) = p

-----------------------------------------------------------------------------
(* Cron evaluation: crontab(...).remaining_estimate, as _update_next_run    *)
(* uses it.  A parsed expression is the sequence of its fields, each the   *)
(* set of values the field admits.                                         *)

FieldRange(i) == CASE i = 1 -> 0..59
                   [] i = 2 -> 0..23
                   [] i = 3 -> 1..31
                   [] i = 4 -> 1..12
                   [] OTHER -> 0..6

\* a variant that only asks for five fields at least and reads the first
\* five
CronValidFirstFive(expr) ==
    /\ Len(expr) >= 5
    /\ \A i \in 1..5 : expr[i] # {} /\ expr[i] \subseteq FieldRange(i)

\* len(cron_parts) != 5 raises ValueError; crontab() raises on a field it
\* cannot parse or whose values are out of range
CronValid(expr) ==
    /\ Len(expr) = 5
    /\ \A i \in 1..5 : expr[i] # {} /\ expr[i] \subseteq FieldRange(i)

MinuteOf(t) == t % 60

HourOf(t) == (t \div 60) % 24

DayOf(t) == t \div MinutesPerDay

\* the calendar of January 2024: day 0 is Monday the 1st
DayMatches(expr, d) ==
    /\ (d + 1) \in expr[3]
    /\ 1 \in expr[4]
    /\ ((d + 1) % 7) \in expr[5]

\* crontab.remaining_delta(last_run_at), read at wall-clock instant wall:
\* the instant last_run_at + delta.  The branch that stays within the hour
\* of last_run_at is taken only when last_run_at and the wall clock are on
\* the same date
remaining_delta(expr, last_run_at, wall) ==
    LET d0 == DayOf(last_run_at)
        h0 == HourOf(last_run_at)
        m0 == MinuteOf(last_run_at)
        laterM == {m \in expr[1] : m > m0}
        laterH == {h \in expr[2] : h > h0}
        laterD == {d \in (d0 + 1)..30 : DayMatches(expr, d)}
        execute_this_date == DayMatches(expr, d0)
        execute_this_hour == /\ execute_this_date
                             /\ d0 = DayOf(wall)
                             /\ h0 \in expr[2]
                             /\ laterM # {}
        execute_today == execute_this_date /\ laterH # {}
    IN  IF execute_this_hour
        THEN d0 * MinutesPerDay + h0 * 60 + Min(laterM)
        ELSE IF execute_today
        THEN d0 * MinutesPerDay + Min(laterH) * 60 + Min(expr[1])
        ELSE Min(laterD) * MinutesPerDay + Min(expr[2]) * 60
             + Min(expr[1])

\* crontab.remaining_estimate(last_run_at): the time left from the wall
\* clock, not from last_run_at, until last_run_at + delta
remaining_estimate(expr, last_run_at, wall) ==
    remaining_delta(expr, last_run_at, wall) - wall

\* next_run = curr_time + delta, for curr_time = base and the wall clock at
\* wall when remaining_estimate reads it
next_run_time(expr, base, wall) ==
    base + remaining_estimate(expr, base, wall)

\* the first instant strictly after t at which expr fires: what the next
\* run time is when the base time is the wall clock
NextFire(expr, t) == next_run_time(expr, t, t)

\* whether expr fires at instant t
Fires(expr, t) ==
    /\ MinuteOf(t) \in expr[1]
    /\ HourOf(t) \in expr[2]
    /\ DayMatches(expr, DayOf(t))

-----------------------------------------------------------------------------
(* The registry *)

BackupSchedule(db, cron, ret, pfx) ==
    [database_name |-> db, cron_expression |-> cron, retention_days |-> ret,
     prefix |-> pfx]

Star == <<0..59, 0..23, 1..31, 1..12, 0..6>>

\* "* * * * *"
CronEveryMinute == Star

\* "*/2 * * * *"
CronEven == [Star EXCEPT ![1] = {m \in 0..59 : m % 2 = 0}]

\* "3 * * * *"
CronAt3 == [Star EXCEPT ![1] = {3}]

\* "1 * * * *"
CronAt1 == [Star EXCEPT ![1] = {1}]

\* "0 3": two fields only
CronMalformed == <<{0}, {3}>>

\* the registries the scheduler is run with
Registries ==
    { <<BackupSchedule(DB1, CronEven, 7, Daily),
        BackupSchedule(DB1, CronAt3, 90, Weekly)>>,
      <<BackupSchedule(DB1, CronEveryMinute, 30, None),
        BackupSchedule(DB2, CronAt1, 7, Daily)>>,
      <<BackupSchedule(DB2, CronMalformed, 7, None),
        BackupSchedule(DB3, CronAt1, 7, Weekly),
        BackupSchedule(DB2, CronEveryMinute, 90, Daily)>> }

\* the database names the schedules use
DBNames == {DB1, DB2, DB3}

DefaultSchedule ==
    [index |-> NoIndex, retention_days |-> RetentionDefault, prefix |-> None,
     cron_expression |-> None]

ScheduleInfo(scheds, idx) ==
    [index |-> idx, retention_days |-> scheds[idx].retention_days,
     prefix |-> scheds[idx].prefix,
     cron_expression |-> scheds[idx].cron_expression]

\* a variant that resolves to the last schedule of the data source
LastScheduleIndex(scheds, db) ==
    LET m == {i \in 1..Len(scheds) : scheds[i].database_name = db}
    IN  IF m = {} THEN 0 ELSE CHOOSE i \in m : \A j \in m : j <= i

\* next((s for s in schedules if s.database_name == db_name), None), as the
\* 1-based position of that schedule, 0 when there is none
FirstScheduleIndex(scheds, db) ==
    LET m == {i \in 1..Len(scheds) : scheds[i].database_name = db}
    IN  IF m = {} THEN 0 ELSE Min(m)

\* BackupService._get_schedule_info; schedule_index is 1-based here and
\* NoIndex stands for None
get_schedule_info(scheds, db, schedule_index) ==
    IF /\ schedule_index # NoIndex
       /\ schedule_index \in 1..Len(scheds)
       /\ scheds[schedule_index].database_name = db
    THEN ScheduleInfo(scheds, schedule_index)
    ELSE IF FirstScheduleIndex(scheds, db) = 0
    THEN DefaultSchedule
    ELSE ScheduleInfo(scheds, FirstScheduleIndex(scheds, db))

\* BackupService._get_all_schedules_for_database: the schedules of the data
\* source in registry order, the default alone when it has none
get_all_schedules_for_database(scheds, db) ==
    LET all == SelectSeq([i \in 1..Len(scheds) |-> i],
                         LAMBDA i : scheds[i].database_name = db)
    IN  IF all = <<>> THEN <<DefaultSchedule>>
        ELSE [k \in 1..Len(all) |-> ScheduleInfo(scheds, all[k])]

\* a variant that matches the prefix alone, whatever the data source
get_schedule_by_prefix_any_database(scheds, db, pfx) ==
    LET m == {i \in 1..Len(scheds) : scheds[i].prefix = pfx}
    IN  IF m = {} THEN DefaultSchedule ELSE ScheduleInfo(scheds, Min(m))

\* BackupService._get_schedule_by_prefix
get_schedule_by_prefix(scheds, db, pfx) ==
    LET m == {i \in 1..Len(scheds) :
                 scheds[i].database_name = db /\ scheds[i].prefix = pfx}
    IN  IF m = {} THEN DefaultSchedule ELSE ScheduleInfo(scheds, Min(m))

-----------------------------------------------------------------------------
(* The insertion-ordered dict next_runs: a sequence of <<db_name, time>> *)

DictKeys(d) == {d[i][1] : i \in 1..Len(d)}

DictGet(d, k) == d[CHOOSE i \in 1..Len(d) : d[i][1] = k][2]

\* d[k] = v: an existing key keeps its place, a new one goes last
DictSet(d, k, v) ==
    IF k \in DictKeys(d)
    THEN [i \in 1..Len(d) |-> IF d[i][1] = k THEN <<k, v>> ELSE d[i]]
    ELSE Append(d, <<k, v>>)

-----------------------------------------------------------------------------
(* SchedulerService *)

\* _update_next_run(next_runs, db_name, base_time), run at the wall-clock
\* instant wall: the schedule is the first one of the registry with that
\* database_name; a malformed expression is logged and leaves the dict as
\* it is
update_next_run_at(nr, scheds, db, base, wall) ==
    LET i == FirstScheduleIndex(scheds, db)
    IN  IF i = 0 THEN nr
        ELSE IF ~CronValid(scheds[i].cron_expression) THEN nr
        ELSE DictSet(nr, db,
                     next_run_time(scheds[i].cron_expression, base, wall))

\* the calls the scheduler makes: base_time is datetime.now() or absent, so
\* the base time and the wall clock are the same instant
update_next_run(nr, scheds, db, base) ==
    update_next_run_at(nr, scheds, db, base, base)

RECURSIVE update_next_runs_from(_, _, _, _)
update_next_runs_from(nr, scheds, base, i) ==
    IF i > Len(scheds) THEN nr
    ELSE update_next_runs_from(
             update_next_run(nr, scheds, scheds[i].database_name, base),
             scheds, base, i + 1)

\* _update_next_runs(next_runs): one _update_next_run call per schedule,
\* each with the schedule's database_name and the same base time
update_next_runs(nr, scheds, base) == update_next_runs_from(nr, scheds, base, 1)

\* get_next_run_times, the body of its loop: what one schedule puts into
\* result[db_name], read at the wall-clock instant wall.  The base time is
\* schedule_entry.now(), the wall clock itself
next_run_entry(schedule, active, wall) ==
    IF CronValid(schedule.cron_expression)
    THEN [next_run |-> next_run_time(schedule.cron_expression, wall, wall),
          next_run_in |-> remaining_estimate(schedule.cron_expression,
                                             wall, wall),
          cron_expression |-> schedule.cron_expression,
          retention_days |-> schedule.retention_days,
          is_active |-> schedule.database_name \in active]
    ELSE [error |-> "invalid",
          cron_expression |-> schedule.cron_expression]

RECURSIVE get_next_run_times_from(_, _, _, _, _)
get_next_run_times_from(result, scheds, active, wall, i) ==
    IF i > Len(scheds) THEN result
    ELSE get_next_run_times_from(
             DictSet(result, scheds[i].database_name,
                     next_run_entry(scheds[i], active, wall)),
             scheds, active, wall, i + 1)

\* SchedulerService.get_next_run_times: result is a dict keyed by db_name,
\* assigned once per schedule of the registry
get_next_run_times(scheds, active, wall) ==
    get_next_run_times_from(<<>>, scheds, active, wall, 1)

is_running_thread_set == loop_pc # "none"

\* self._scheduler_thread is not None and self._scheduler_thread.is_alive()
is_running == loop_pc \notin {"none", "dead"}

\* a variant in which the loop dispatches only while no run is in flight
should_run_when_idle(tick_now, next_run, db, active) ==
    tick_now >= next_run /\ active = {}

should_run_unguarded(tick_now, next_run, db, active) ==
    tick_now >= next_run

\* the condition under which the tick dispatches an entry of next_runs
should_run(tick_now, next_run, db, active) ==
    tick_now >= next_run /\ db \notin active

upload_reached_always(dumped) == TRUE

\* perform_backup: upload_backup is called once backup_database and
\* get_backup_details have returned
upload_reached(dumped) == dumped

cleanup_reached_always(removed) == TRUE

\* perform_backup: _cleanup_old_backups is called once os.remove has
\* returned
cleanup_reached(removed) == removed

\* a variant in which perform_backup catches what the retention cleanup raises
cleanup_error_swallowed(fail_at) == FALSE

\* storage.cleanup_old_backups re-raises the ClientError of the object store
\* and perform_backup calls _cleanup_old_backups inside its try block with
\* no handler of its own: a failing cleanup raises out of the try block
cleanup_raises(fail_at) == fail_at = "cleanup"

\* a variant in which an exception of the notifier escapes and replaces the
\* outcome of the run
notifier_error_raised(error, notify_fails) ==
    IF notify_fails THEN "notify" ELSE error

\* _send_success_notification and _send_failure_notification wrap the
\* notifier in try/except Exception and only log: the error perform_backup
\* ends with ("none" for a returned result) is the one it had before the
\* notifier was invoked
outcome_error(error, notify_fails) == error

\* a variant of the notification wrappers without the test of
\* config.notifications_email
notifier_called_without_recipient(notifications_email, notified) == notified

\* _send_success_notification and _send_failure_notification return at once
\* when config.notifications_email is None or empty; otherwise they build an
\* EmailNotifier for the recipient and call its send_success_notification or
\* send_failure_notification: the notification that reaches the notifier
\* ("none" when neither does), given the wrapper perform_backup called
notifier_called(notifications_email, notified) ==
    IF notifications_email = None THEN "none" ELSE notified

\* what perform_backup(db_name, schedule_index) does, given the step that
\* fails ("none" when no step fails) and whether the notifier raises: the
\* schedule it resolves, the calls it makes to the engine, the storage and
\* the notifier, and how it ends.  An exception of the notifier is caught
\* inside _send_success_notification and _send_failure_notification, so it
\* changes nothing of the outcome
perform_backup(scheds, db, schedule_index, fail_at, notify_fails) ==
    LET info == get_schedule_info(scheds, db, schedule_index)
        found == db \in databases
        dumped == found /\ fail_at # "dump"
        upload_called == found /\ upload_reached(dumped)
        uploaded == upload_called /\ dumped /\ fail_at # "upload"
        remove_called == uploaded
        removed == remove_called /\ fail_at # "remove"
        cleanup_called == found /\ cleanup_reached(removed)
        cleaned == cleanup_called /\ removed /\ ~cleanup_raises(fail_at)
        raw_error == IF cleaned THEN "none"
                     ELSE IF ~found THEN "not_found" ELSE fail_at
        error == outcome_error(raw_error, notify_fails)
    IN  [status |-> IF error = "none" THEN "success" ELSE "raised",
         error |-> error,
         schedule_index |-> IF found THEN info.index ELSE NoIndex,
         dumped |-> dumped,
         upload_called |-> upload_called,
         uploaded |-> uploaded,
         upload_prefix |-> IF upload_called THEN info.prefix ELSE None,
         remove_called |-> remove_called,
         local_removed |-> removed,
         cleanup_called |-> cleanup_called,
         cleanup_retention |->
             IF cleanup_called THEN info.retention_days ELSE 0,
         cleanup_prefix |-> IF cleanup_called THEN info.prefix ELSE None,
         notified |-> IF cleaned THEN "success" ELSE "failure"]

FailPoints == {"none", "dump", "upload", "remove", "cleanup"}

\* a variant that runs the retention cleanup before the upload
StepOrderCleanupFirst ==
    <<"dump", "cleanup", "upload", "remove", "notify_success", "return">>

\* the statements of the try block of perform_backup, in program order:
\* backup_database, upload_backup, os.remove, _cleanup_old_backups,
\* _send_success_notification, return
StepOrder ==
    <<"dump", "upload", "remove", "cleanup", "notify_success", "return">>

\* the steps one call of perform_backup starts, in the order it starts them:
\* those of the try block that are reached, then the failure notification
\* and the re-raise of the except block when the call raises
perform_backup_steps(scheds, db, schedule_index, fail_at, notify_fails) ==
    LET r == perform_backup(scheds, db, schedule_index, fail_at,
                            notify_fails)
        started == [dump |-> db \in databases,
                    upload |-> r.upload_called,
                    remove |-> r.remove_called,
                    cleanup |-> r.cleanup_called,
                    notify_success |-> r.notified = "success",
                    return |-> r.status = "success"]
    IN  SelectSeq(StepOrder, LAMBDA st : started[st])
        \o (IF r.notified = "failure" THEN <<"notify_failure">> ELSE <<>>)
        \o (IF r.status = "raised" THEN <<"raise">> ELSE <<>>)

NoResult == [status |-> "running"]

\* the argument _run_backup.backup_thread passes as schedule_index
dispatch_schedule_index(scheds, db) == NoIndex

\* history: the schedules of db that have fired between the due time of
\* db's entry and the tick that dispatches it
DueSchedules(scheds, db, next_run, tick_now) ==
    {i \in 1..Len(scheds) :
        /\ scheds[i].database_name = db
        /\ CronValid(scheds[i].cron_expression)
        /\ \E f \in next_run..tick_now : Fires(scheds[i].cron_expression, f)}

\* a backup thread as _run_backup creates it; due and catchup are history:
\* the schedules due at the dispatch, and whether an earlier tick had
\* passed over the entry the thread was dispatched for
NewThread(db, due, catchup) ==
    [phase |-> "perform", due |-> due, catchup |-> catchup,
     result |-> NoResult]

reschedule_never(nr, scheds, db, next_run, base) == nr

reschedule_from_due(nr, scheds, db, next_run, base) ==
    update_next_run(nr, scheds, db, next_run)

\* _scheduler_loop: the entry of a key just dispatched is recomputed from
\* datetime.now()
reschedule(nr, scheds, db, next_run, base) ==
    update_next_run(nr, scheds, db, base)

\* a variant in which a start begins with an empty set of active backups
start_resets_active_backups(active) == {}

\* start_scheduler: _active_backups is created in __init__ and a start does
\* not touch it
start_active_backups(active) == active

\* start_scheduler()
start_scheduler ==
    /\ ctl_pc = "idle"
    /\ IF is_running
       THEN UNCHANGED <<stop_event, loop_pc, active_backups>>
       ELSE /\ stop_event' = FALSE
            /\ loop_pc' = "start"
            /\ active_backups' = start_active_backups(active_backups)
    /\ UNCHANGED <<schedules, now, next_runs, loop_now, items,
                   cur, threads, ctl_pc,
                   stop_result, skipped, remove_failed, store_vars>>

stop_clears_active_backups(active) == {}

\* stop_scheduler: it sets the stop event and does nothing to the set of
\* active backups
stop_active_backups(active) == active

\* stop_scheduler(wait, timeout), up to the join
stop_scheduler(wait) ==
    /\ ctl_pc = "idle"
    /\ IF ~is_running
       THEN /\ stop_result' = "true"
            /\ UNCHANGED <<stop_event, ctl_pc, active_backups>>
       ELSE /\ stop_event' = TRUE
            /\ active_backups' = stop_active_backups(active_backups)
            /\ IF wait
               THEN ctl_pc' = "join" /\ UNCHANGED stop_result
               ELSE stop_result' = "true" /\ UNCHANGED ctl_pc
    /\ UNCHANGED <<schedules, now, loop_pc, next_runs,
                   loop_now, items, cur, threads, skipped, remove_failed,
                   store_vars>>

join_result_true(alive) == "true"

\* stop_scheduler: what it returns after the join, from is_alive()
join_result(alive) == IF alive THEN "false" ELSE "true"

\* stop_scheduler: join(timeout) returns, because the thread ended or
\* because the timeout elapsed, and the thread's liveness decides the result
stop_scheduler_joined(timed_out) ==
    /\ ctl_pc = "join"
    /\ timed_out \/ ~is_running
    /\ stop_result' = join_result(is_running)
    /\ ctl_pc' = "idle"
    /\ UNCHANGED <<schedules, now, stop_event, active_backups, loop_pc,
                   next_runs, loop_now, items, cur, threads, skipped,
                   remove_failed, store_vars>>

\* _scheduler_loop: next_runs = {}; self._update_next_runs(next_runs)
scheduler_loop_init ==
    /\ loop_pc = "start"
    /\ next_runs' = update_next_runs(<<>>, schedules, now)
    /\ loop_pc' = "while"
    /\ UNCHANGED <<schedules, now, stop_event, active_backups, loop_now,
                   items, cur, threads, ctl_pc, stop_result, skipped,
                   remove_failed, store_vars>>

\* _scheduler_loop: while not self._stop_event.is_set(): now = ...;
\* for db_name, next_run in list(next_runs.items()).  When the loop ends
\* the thread is dead and its locals are gone
scheduler_loop_while ==
    /\ loop_pc = "while"
    /\ IF stop_event
       THEN /\ loop_pc' = "dead"
            /\ next_runs' = <<>>
            /\ skipped' = {}
            /\ loop_now' = 0
            /\ UNCHANGED items
       ELSE /\ loop_pc' = "for"
            /\ loop_now' = now
            /\ items' = next_runs
            /\ UNCHANGED <<next_runs, skipped>>
    /\ UNCHANGED <<schedules, now, stop_event, active_backups, cur, threads,
                   ctl_pc, stop_result, remove_failed, store_vars>>

\* _scheduler_loop: one iteration of the for loop, up to and including
\* self._run_backup(db_name), which adds the key and starts the thread
scheduler_loop_for ==
    /\ loop_pc = "for"
    /\ IF items = <<>>
       THEN /\ loop_pc' = "wait"
            /\ UNCHANGED <<items, cur, active_backups, threads, skipped>>
       ELSE LET db == Head(items)[1]
                next_run == Head(items)[2]
            IN  /\ items' = Tail(items)
                /\ IF should_run(loop_now, next_run, db, active_backups)
                   THEN /\ active_backups' = active_backups \cup {db}
                        /\ threads' = [threads EXCEPT ![db] =
                               Append(@, NewThread(db,
                                   DueSchedules(schedules, db, next_run,
                                                loop_now),
                                   db \in skipped))]
                        /\ cur' = db
                        /\ loop_pc' = "update"
                        /\ UNCHANGED skipped
                   ELSE /\ skipped' = IF loop_now >= next_run
                                      THEN skipped \cup {db} ELSE skipped
                        /\ UNCHANGED <<active_backups, threads, cur, loop_pc>>
    /\ UNCHANGED <<schedules, now, stop_event, next_runs, loop_now, ctl_pc,
                   stop_result, remove_failed, store_vars>>

\* _scheduler_loop: self._update_next_run(next_runs, db_name) after the
\* dispatch, with base_time = datetime.now()
scheduler_loop_update ==
    /\ loop_pc = "update"
    /\ next_runs' = reschedule(next_runs, schedules, cur,
                               DictGet(next_runs, cur), now)
    /\ loop_pc' = "for"
    /\ cur' = None
    /\ skipped' = skipped \ {cur}
    /\ UNCHANGED <<schedules, now, stop_event, active_backups, loop_now,
                   items, threads, ctl_pc, stop_result, remove_failed,
                   store_vars>>

\* _scheduler_loop: self._stop_event.wait(10) returns
scheduler_loop_wait ==
    /\ loop_pc = "wait"
    /\ loop_pc' = "while"
    /\ UNCHANGED <<schedules, now, stop_event, active_backups, next_runs,
                   loop_now, items, cur, threads, ctl_pc, stop_result,
                   skipped, remove_failed, store_vars>>

loop_killed_by_failed_run(pc, status) ==
    IF status = "raised" THEN "dead" ELSE pc

\* backup_thread: perform_backup runs in the backup thread and what it
\* raises is caught there, so the loop thread is where it was
loop_after_run(pc, status) == pc

\* backup_thread: self.backup_service.perform_backup(db_name), which
\* returns or raises; either way the thread goes on to its finally clause
backup_thread_perform(db, k, fail_at, notify_fails) ==
    /\ k \in 1..Len(threads[db])
    /\ threads[db][k].phase = "perform"
    /\ LET result == perform_backup(schedules, db,
                         dispatch_schedule_index(schedules, db),
                         fail_at, notify_fails)
       IN  /\ threads' = [threads EXCEPT ![db][k] =
                  [@ EXCEPT !.phase = "finally", !.result = result]]
           /\ loop_pc' = loop_after_run(loop_pc, result.status)
    /\ UNCHANGED <<schedules, now, stop_event, active_backups,
                   next_runs, loop_now, items, cur, ctl_pc, stop_result,
                   skipped, remove_failed, store_vars>>

finally_key_none(db) == {}

\* the key backup_thread's finally clause removes
finally_key(db) == {db}

\* backup_thread: finally: self._active_backups.remove(db_name); the
\* thread ends.  set.remove raises KeyError when the key is absent
backup_thread_finally(db, k) ==
    /\ k \in 1..Len(threads[db])
    /\ threads[db][k].phase = "finally"
    /\ active_backups' = active_backups \ finally_key(db)
    /\ remove_failed' = (remove_failed \/ db \notin active_backups)
    /\ threads' = [threads EXCEPT ![db] =
           SubSeq(@, 1, k - 1) \o SubSeq(@, k + 1, Len(@))]
    /\ UNCHANGED <<schedules, now, stop_event, loop_pc, next_runs, loop_now,
                   items, cur, ctl_pc, stop_result, skipped, store_vars>>

\* time passes
Tick ==
    /\ now < MaxTime
    /\ now' = now + 1
    /\ UNCHANGED <<schedules, stop_event, active_backups, loop_pc, next_runs,
                   loop_now, items, cur, threads, ctl_pc, stop_result,
                   skipped, remove_failed, store_vars>>

-----------------------------------------------------------------------------
(* Object keys *)

Slash == "/"

\* os.path.join(a, b) for a relative b: a separator goes between the two
\* unless a is empty or already ends with one
path_join2(a, b) ==
    IF a = <<>> THEN b
    ELSE IF a[Len(a)] = Slash THEN a \o b
    ELSE a \o <<Slash>> \o b

path_join3(a, b, c) == path_join2(path_join2(a, b), c)

path_join4(a, b, c, d) == path_join2(path_join3(a, b, c), d)

\* a variant that leaves the schedule prefix out of the key
upload_key_without_scope(base, db, custom_prefix, filename) ==
    path_join3(base, db, filename)

\* S3Storage.upload_backup: the key of an uploaded file
upload_key(base, db, custom_prefix, filename) ==
    IF custom_prefix # None
    THEN path_join4(base, db, custom_prefix, filename)
    ELSE path_join3(base, db, filename)

\* config.s3.bucket_name and the bucket_name override of a database
DefaultBucket == <<"k">>

CustomBucket == <<"k", "2">>

\* S3Storage.upload_backup: bucket_name = custom_bucket or
\* self.config.bucket_name
upload_bucket(custom_bucket) ==
    IF custom_bucket # None THEN custom_bucket ELSE DefaultBucket

\* S3Storage.upload_backup without failure of the store: the bucket and the
\* key upload_file is called with; the key is what it returns
upload_backup(db, filename, custom_bucket, custom_prefix) ==
    [bucket_name |-> upload_bucket(custom_bucket),
     s3_key |-> upload_key(BasePrefix, db, custom_prefix, filename)]

\* S3Storage.cleanup_old_backups: the Prefix handed to the paginator
cleanup_prefix(base, db, custom_prefix) ==
    IF custom_prefix # None
    THEN path_join3(base, db, custom_prefix)
    ELSE path_join2(base, db)

\* byte order of the characters that occur in keys
CharCode(c) ==
    CASE c = "/" -> 47
      [] c = "0" -> 48
      [] c = "1" -> 49
      [] c = "2" -> 50
      [] c = "b" -> 98
      [] c = "d" -> 100
      [] c = "f" -> 102
      [] c = "g" -> 103
      [] c = "x" -> 120
      [] OTHER -> 121

RECURSIVE KeyLess(_, _)
\* a < b in the object store's (byte-wise lexicographic) listing order
KeyLess(a, b) ==
    IF a = <<>> THEN b # <<>>
    ELSE IF b = <<>> THEN FALSE
    ELSE IF Head(a) = Head(b) THEN KeyLess(Tail(a), Tail(b))
    ELSE CharCode(Head(a)) < CharCode(Head(b))

RECURSIVE SortByKey(_)
SortByKey(objs) ==
    IF objs = {} THEN <<>>
    ELSE LET first == CHOOSE o \in objs :
                          \A p \in objs : p = o \/ KeyLess(o.Key, p.Key)
         IN  <<first>> \o SortByKey(objs \ {first})

\* list_objects_v2(Bucket, Prefix): the objects whose key starts with the
\* Prefix string, in key order
list_objects(objs, prefix) ==
    SortByKey({o \in objs : StartsWith(o.Key, prefix)})

RECURSIVE Chunks(_, _)
Chunks(listing, size) ==
    IF Len(listing) <= size THEN <<listing>>
    ELSE <<SubSeq(listing, 1, size)>>
         \o Chunks(SubSeq(listing, size + 1, Len(listing)), size)

\* paginator.paginate(Bucket, Prefix): the listing cut into pages of at
\* most page_size objects; a page without 'Contents' is the empty
\* sequence.  An empty listing is one such page, and with gap the store
\* returns such a page after the first page
paginate(listing, page_size, gap) ==
    LET chunks == Chunks(listing, page_size)
    IN  IF gap /\ listing # <<>>
        THEN <<chunks[1], <<>>>> \o Tail(chunks)
        ELSE chunks

\* delete_object(Bucket, Key)
delete_object(objs, key) == {o \in objs : o.Key # key}

is_old_or_equal(obj, cutoff_date) == obj.LastModified <= cutoff_date

\* the test of cleanup_old_backups on a listed object
is_old(obj, cutoff_date) == obj.LastModified < cutoff_date

record_deleted_last(deleted_keys, s3_key) == <<s3_key>>

\* deleted_keys.append(s3_key)
record_deleted(deleted_keys, s3_key) == Append(deleted_keys, s3_key)

\* datetime.utcnow() - timedelta(days=retention_days)
cutoff(utcnow, retention_days) == utcnow - retention_days * MinutesPerDay

NoCleanup == [pc |-> "idle"]

NoCall == [op |-> "none"]

NoDays == -1

\* BackupService.cleanup_old_backups(db_name, days, schedule_prefix) up to
\* the first page of S3Storage.cleanup_old_backups: the schedule is
\* resolved, and the prefix, the cutoff and the pages are computed
cleanup_old_backups(db, days, schedule_prefix, page_size, gap) ==
    /\ cl.pc \in {"idle", "done"}
    /\ db \in databases
    /\ LET schedule_info ==
               IF schedule_prefix # None
               THEN get_schedule_by_prefix(schedules, db, schedule_prefix)
               ELSE get_schedule_info(schedules, db, NoIndex)
           retention_days ==
               IF days # NoDays THEN days ELSE schedule_info.retention_days
           custom_prefix ==
               IF schedule_prefix # None THEN schedule_prefix
               ELSE schedule_info.prefix
           prefix == cleanup_prefix(BasePrefix, db, custom_prefix)
       IN  cl' = [pc |-> "pages",
                  db_name |-> db,
                  schedule_prefix |-> schedule_prefix,
                  retention_days |-> retention_days,
                  custom_prefix |-> custom_prefix,
                  cutoff_date |-> cutoff(now, retention_days),
                  pages |-> paginate(list_objects(bucket, prefix),
                                     page_size, gap),
                  page |-> 1,
                  obj |-> 1,
                  deleted_keys |-> <<>>,
                  delete_calls |-> <<>>,
                  bucket0 |-> bucket]
    /\ UNCHANGED <<sched_vars, bucket, call>>

\* S3Storage.cleanup_old_backups: one step of the two nested loops, and the
\* return after the last page; delete_calls is history, the keys
\* delete_object was called with
cleanup_step ==
    /\ cl.pc = "pages"
    /\ IF cl.page > Len(cl.pages)
       THEN cl' = [cl EXCEPT !.pc = "done"] /\ UNCHANGED bucket
       ELSE IF cl.obj > Len(cl.pages[cl.page])
       THEN /\ cl' = [cl EXCEPT !.page = @ + 1, !.obj = 1]
            /\ UNCHANGED bucket
       ELSE LET o == cl.pages[cl.page][cl.obj]
            IN  IF is_old(o, cl.cutoff_date)
                THEN /\ bucket' = delete_object(bucket, o.Key)
                     /\ cl' = [cl EXCEPT
                            !.obj = @ + 1,
                            !.delete_calls = Append(@, o.Key),
                            !.deleted_keys = record_deleted(@, o.Key)]
                ELSE /\ cl' = [cl EXCEPT !.obj = @ + 1]
                     /\ UNCHANGED bucket
    /\ UNCHANGED <<sched_vars, call>>

\* a variant in which a failed delete is passed over and the loop goes on
delete_failure_ignored(pc) == pc

\* S3Storage.cleanup_old_backups: delete_object raises ClientError inside
\* the try block; the handler logs and re-raises, so the call ends there
after_delete_failure(pc) == "raised"

\* S3Storage.cleanup_old_backups: the step at an object that is old enough
\* when delete_object raises ClientError: the object stays, the two loops
\* are left and no list is returned
cleanup_delete_fails ==
    /\ cl.pc = "pages"
    /\ cl.page <= Len(cl.pages)
    /\ cl.obj <= Len(cl.pages[cl.page])
    /\ LET o == cl.pages[cl.page][cl.obj]
       IN  /\ is_old(o, cl.cutoff_date)
           /\ cl' = [cl EXCEPT !.pc = after_delete_failure(@),
                               !.delete_calls = Append(@, o.Key)]
    /\ UNCHANGED <<sched_vars, bucket, call>>

\* the state after SchedulerService.__init__, for each registry
Init ==
    /\ schedules \in Registries
    /\ now = 0
    /\ stop_event = FALSE
    /\ active_backups = {}
    /\ loop_pc = "none"
    /\ next_runs = <<>>
    /\ loop_now = 0
    /\ items = <<>>
    /\ cur = None
    /\ threads = [db \in DBNames |-> <<>>]
    /\ ctl_pc = "idle"
    /\ stop_result = "none"
    /\ skipped = {}
    /\ remove_failed = FALSE
    /\ bucket = {}
    /\ cl = NoCleanup
    /\ call = NoCall

Next ==
    \/ start_scheduler
    \/ \E wait \in BOOLEAN : stop_scheduler(wait)
    \/ \E timed_out \in BOOLEAN : stop_scheduler_joined(timed_out)
    \/ scheduler_loop_init
    \/ scheduler_loop_while
    \/ scheduler_loop_for
    \/ scheduler_loop_update
    \/ scheduler_loop_wait
    \/ \E db \in DBNames, k \in 1..2, f \in FailPoints, nf \in BOOLEAN :
           backup_thread_perform(db, k, f, nf)
    \/ \E db \in DBNames, k \in 1..2 : backup_thread_finally(db, k)
    \/ Tick

Spec == Init /\ [][Next]_vars

\* a step of the loop thread
LoopStep ==
    \/ scheduler_loop_init
    \/ scheduler_loop_while
    \/ scheduler_loop_for
    \/ scheduler_loop_update
    \/ scheduler_loop_wait

\* a step of some backup thread
ThreadStep ==
    \E db \in DBNames, k \in 1..2 :
        \/ \E f \in FailPoints, nf \in BOOLEAN :
               backup_thread_perform(db, k, f, nf)
        \/ backup_thread_finally(db, k)

\* the backup threads are operating-system threads and perform_backup is
\* taken to return or raise: while some thread has a step to take, one is
\* taken
Fairness == WF_vars(ThreadStep)

FairSpec == Init /\ [][Next]_vars /\ Fairness

\* the loop thread is an operating-system thread: while it is alive it takes
\* its next step.  Nothing is assumed of the backup threads, so a run may
\* stay in flight for ever
LoopFairness == WF_vars(LoopStep)

FairLoopSpec == Init /\ [][Next]_vars /\ LoopFairness

\* _run_backup when thread.start() raises RuntimeError (the process cannot
\* start another thread): the key has been added, no thread runs, and the
\* exception leaves _run_backup and _scheduler_loop, which has no handler,
\* so the loop thread ends and its locals are gone
run_backup_start_fails ==
    /\ loop_pc = "for"
    /\ items # <<>>
    /\ should_run(loop_now, Head(items)[2], Head(items)[1], active_backups)
    /\ active_backups' = active_backups \cup {Head(items)[1]}
    /\ loop_pc' = "dead"
    /\ next_runs' = <<>>
    /\ skipped' = {}
    /\ loop_now' = 0
    /\ UNCHANGED <<schedules, now, stop_event, items, cur, threads, ctl_pc,
                   stop_result, remove_failed, store_vars>>

NextThreadLimit ==
    \/ Next
    \/ run_backup_start_fails

\* the scheduler in a process that may fail to start a thread
SpecThreadLimit == Init /\ [][NextThreadLimit]_vars

-----------------------------------------------------------------------------
(* Retention cleanup on its own: every bucket of at most MaxObjects        *)
(* objects, cleaned by calls of BackupService.cleanup_old_backups          *)

CleanupRegistries ==
    { <<BackupSchedule(DB1, CronEven, 1, Daily),
        BackupSchedule(DB1, CronAt3, 2, Daily2)>>,
      <<BackupSchedule(DB1, CronEveryMinute, 2, None),
        BackupSchedule(DB2, CronAt1, 1, Daily)>> }

CleanupKeys ==
    { upload_key(BasePrefix, DB1, None, FileF),
      upload_key(BasePrefix, DB1, None, FileG),
      upload_key(BasePrefix, DB1, Daily, FileF),
      upload_key(BasePrefix, DB1, Daily2, FileF),
      upload_key(BasePrefix, DB10, None, FileF),
      upload_key(BasePrefix, DB2, None, FileF) }

\* the instant at which the cleanups run
CleanupNow == 3 * MinutesPerDay

\* ages of the objects, in days
Ages == {1, 2}

CleanupObjects ==
    {[Key |-> k, LastModified |-> CleanupNow - a * MinutesPerDay] :
        k \in CleanupKeys, a \in Ages}

Buckets ==
    {b \in SUBSET CleanupObjects :
        /\ Cardinality(b) <= MaxObjects
        /\ \A o, p \in b : o.Key = p.Key => o = p}

InitCleanup ==
    /\ schedules \in CleanupRegistries
    /\ now = CleanupNow
    /\ stop_event = FALSE
    /\ active_backups = {}
    /\ loop_pc = "none"
    /\ next_runs = <<>>
    /\ loop_now = 0
    /\ items = <<>>
    /\ cur = None
    /\ threads = [db \in DBNames |-> <<>>]
    /\ ctl_pc = "idle"
    /\ stop_result = "none"
    /\ skipped = {}
    /\ remove_failed = FALSE
    /\ bucket \in Buckets
    /\ cl = NoCleanup
    /\ call = NoCall

NextCleanup ==
    \/ \E db \in DBNames, days \in {NoDays, 1},
          schedule_prefix \in {None, Daily, Daily2},
          page_size \in 1..MaxPageSize, gap \in BOOLEAN :
           cleanup_old_backups(db, days, schedule_prefix, page_size, gap)
    \/ cleanup_step

SpecCleanup == InitCleanup /\ [][NextCleanup]_vars

-----------------------------------------------------------------------------
(* The storage part of one run: upload, then retention cleanup, on every    *)
(* bucket of at most MaxObjects objects that earlier runs have left behind  *)

\* registries with a retention of no day, of one day and of two days
RunRegistries ==
    { <<BackupSchedule(DB1, CronEven, 0, Daily),
        BackupSchedule(DB1, CronAt3, 2, None)>>,
      <<BackupSchedule(DB2, CronAt1, 1, Daily)>> }

\* perform_backup from the upload to the first page of the cleanup, for a
\* file the engine has produced: upload_backup puts the object under its key
\* with the store's clock as LastModified, os.remove takes the local file
\* away, and _cleanup_old_backups calls the cleanup of the store with the
\* retention and the prefix of the schedule; gap is the time that passes
\* between the upload and the cleanup's datetime.utcnow()
run_upload_and_cleanup(db, schedule_index, filename, gap, page_size) ==
    /\ cl.pc = "idle"
    /\ db \in databases
    /\ now + gap <= CleanupNow + MaxTime
    /\ LET info == get_schedule_info(schedules, db, schedule_index)
           s3_key == upload_backup(db, filename, None, info.prefix).s3_key
           stored == delete_object(bucket, s3_key)
                         \cup {[Key |-> s3_key, LastModified |-> now]}
           prefix == cleanup_prefix(BasePrefix, db, info.prefix)
       IN  /\ bucket' = stored
           /\ now' = now + gap
           /\ cl' = [pc |-> "pages",
                     db_name |-> db,
                     schedule_prefix |-> None,
                     retention_days |-> info.retention_days,
                     custom_prefix |-> info.prefix,
                     cutoff_date |-> cutoff(now + gap, info.retention_days),
                     pages |-> paginate(list_objects(stored, prefix),
                                        page_size, FALSE),
                     page |-> 1,
                     obj |-> 1,
                     deleted_keys |-> <<>>,
                     delete_calls |-> <<>>,
                     bucket0 |-> stored,
                     uploaded_key |-> s3_key]
    /\ UNCHANGED <<schedules, stop_event, active_backups, loop_pc, next_runs,
                   loop_now, items, cur, threads, ctl_pc, stop_result,
                   skipped, remove_failed, call>>

\* the keys earlier runs have uploaded to
RunKeys ==
    { upload_key(BasePrefix, DB1, None, FileF),
      upload_key(BasePrefix, DB1, None, FileG),
      upload_key(BasePrefix, DB1, Daily, FileF),
      upload_key(BasePrefix, DB1, Daily, FileG),
      upload_key(BasePrefix, DB2, Daily, FileF) }

RunObjects ==
    {[Key |-> k, LastModified |-> CleanupNow - a * MinutesPerDay] :
        k \in RunKeys, a \in Ages}

RunBuckets ==
    {b \in SUBSET RunObjects :
        /\ Cardinality(b) <= MaxObjects
        /\ \A o, p \in b : o.Key = p.Key => o = p}

InitRun ==
    /\ schedules \in RunRegistries
    /\ now = CleanupNow
    /\ stop_event = FALSE
    /\ active_backups = {}
    /\ loop_pc = "none"
    /\ next_runs = <<>>
    /\ loop_now = 0
    /\ items = <<>>
    /\ cur = None
    /\ threads = [db \in DBNames |-> <<>>]
    /\ ctl_pc = "idle"
    /\ stop_result = "none"
    /\ skipped = {}
    /\ remove_failed = FALSE
    /\ bucket \in RunBuckets
    /\ cl = NoCleanup
    /\ call = NoCall

NextRun ==
    \/ \E db \in {DB1, DB2}, i \in 1..2, gap \in 0..1,
          page_size \in 1..MaxPageSize :
           run_upload_and_cleanup(db, i, FileF, gap, page_size)
    \/ cleanup_step
    \/ cleanup_delete_fails

SpecRun == InitRun /\ [][NextRun]_vars

-----------------------------------------------------------------------------
(* The service methods as calls: each action is one call of a method of    *)
(* BackupService or SchedulerService on a loaded configuration, with the   *)
(* wall clock at now and the keys of the runs in flight in active_backups  *)

\* "0 3 * * *"
CronDaily3 == [Star EXCEPT ![1] = {0}, ![2] = {3}]

\* "* * * * * 0": six fields
CronSixFields == Append(Star, {0})

\* "": no field at all
CronNoFields == <<>>

CallRegistries ==
    Registries \cup
    { <<BackupSchedule(DB1, CronDaily3, 7, Daily),
        BackupSchedule(DB2, CronSixFields, 7, None),
        BackupSchedule(DB1, CronEven, 90, Daily)>>,
      <<BackupSchedule(DB2, CronNoFields, 7, Weekly),
        BackupSchedule(DB1, CronAt1, 30, Weekly)>> }

\* the names calls are made with: DB10 has no schedule in any registry
CallNames == DBNames \cup {DB10}

\* 2024-01-01 00:00, 00:01 and 04:00, 2024-01-02 03:00, 2024-01-03 00:00
CallTimes == {0, 1, 4 * 60, MinutesPerDay + 3 * 60, 2 * MinutesPerDay}

\* schedule_index arguments: None, the positions of the registry and one
\* past its end
CallIndexes(scheds) == {NoIndex} \cup (1..(Len(scheds) + 1))

\* the keys _run_backup can have put into _active_backups: the db_names that
\* get an entry in next_runs
ActiveKeys(scheds) == DictKeys(update_next_runs(<<>>, scheds, 0))

\* config.notifications_email: not set, or the address of a recipient
Recipient == <<"o", "p", "s">>

Recipients == {None, Recipient}

call_perform_backup(db, schedule_index, fail_at, notify_fails, notifications_email) ==
    /\ call = NoCall
    /\ call' = [op |-> "perform_backup",
                db_name |-> db,
                schedule_index |-> schedule_index,
                fail_at |-> fail_at,
                notify_fails |-> notify_fails,
                notifications_email |-> notifications_email,
                result |-> perform_backup(schedules, db, schedule_index,
                                          fail_at, notify_fails),
                notifier_called |->
                    notifier_called(
                        notifications_email,
                        perform_backup(schedules, db, schedule_index,
                                       fail_at, notify_fails).notified),
                steps |-> perform_backup_steps(schedules, db, schedule_index,
                                               fail_at, notify_fails)]
    /\ UNCHANGED <<sched_vars, bucket, cl>>

call_get_schedule_info(db, schedule_index) ==
    /\ call = NoCall
    /\ call' = [op |-> "get_schedule_info",
                db_name |-> db,
                schedule_index |-> schedule_index,
                result |-> get_schedule_info(schedules, db, schedule_index)]
    /\ UNCHANGED <<sched_vars, bucket, cl>>

call_get_schedule_by_prefix(db, pfx) ==
    /\ call = NoCall
    /\ call' = [op |-> "get_schedule_by_prefix",
                db_name |-> db,
                prefix |-> pfx,
                result |-> get_schedule_by_prefix(schedules, db, pfx)]
    /\ UNCHANGED <<sched_vars, bucket, cl>>

call_get_all_schedules_for_database(db) ==
    /\ call = NoCall
    /\ call' = [op |-> "get_all_schedules_for_database",
                db_name |-> db,
                result |-> get_all_schedules_for_database(schedules, db)]
    /\ UNCHANGED <<sched_vars, bucket, cl>>

\* _update_next_run(next_runs, db_name, base_time) on an empty dict
call_update_next_run(db, base_time) ==
    /\ call = NoCall
    /\ call' = [op |-> "update_next_run",
                db_name |-> db,
                base_time |-> base_time,
                result |-> update_next_run_at(<<>>, schedules, db,
                                              base_time, now)]
    /\ UNCHANGED <<sched_vars, bucket, cl>>

\* cli.backup: the command `backup database_name`, given the set of
\* schedule_index arguments for which perform_backup raises (its upload
\* fails): the calls of perform_backup it makes, how each ends, and the exit
\* status of the command.  Without schedules of the database one call without
\* index is made and its exception ends the command with sys.exit(1); with
\* schedules one call per schedule is made and an exception is echoed and
\* the loop goes on
backup_command(scheds, db, failing) ==
    LET own == SelectSeq([i \in 1..Len(scheds) |-> i],
                         LAMBDA i : scheds[i].database_name = db)
        outcome(i) == perform_backup(scheds, db, i,
                          IF i \in failing THEN "upload" ELSE "none",
                          FALSE).status
    IN  IF db \notin databases
        THEN [exit_status |-> 1, calls |-> <<>>, outcomes |-> <<>>]
        ELSE IF own = <<>>
        THEN [exit_status |-> IF outcome(NoIndex) = "raised" THEN 1 ELSE 0,
              calls |-> <<NoIndex>>,
              outcomes |-> <<outcome(NoIndex)>>]
        ELSE [exit_status |-> 0,
              calls |-> own,
              outcomes |-> [k \in 1..Len(own) |-> outcome(own[k])]]

call_backup_command(db, failing) ==
    /\ call = NoCall
    /\ call' = [op |-> "backup_command",
                db_name |-> db,
                failing |-> failing,
                result |-> backup_command(schedules, db, failing)]
    /\ UNCHANGED <<sched_vars, bucket, cl>>

call_upload_backup(db, filename, custom_bucket, custom_prefix) ==
    /\ call = NoCall
    /\ call' = [op |-> "upload_backup",
                db_name |-> db,
                filename |-> filename,
                custom_bucket |-> custom_bucket,
                custom_prefix |-> custom_prefix,
                result |-> upload_backup(db, filename, custom_bucket,
                                         custom_prefix)]
    /\ UNCHANGED <<sched_vars, bucket, cl>>

call_get_next_run_times ==
    /\ call = NoCall
    /\ call' = [op |-> "get_next_run_times",
                result |-> get_next_run_times(schedules, active_backups,
                                              now)]
    /\ UNCHANGED <<sched_vars, bucket, cl>>

\* the caller has taken the result; the calls are made by one sequential
\* caller (the command line), one at a time
call_return ==
    /\ call # NoCall
    /\ call' = NoCall
    /\ UNCHANGED <<sched_vars, bucket, cl>>

InitCalls ==
    /\ schedules \in CallRegistries
    /\ now \in CallTimes
    /\ stop_event = FALSE
    /\ active_backups \in SUBSET ActiveKeys(schedules)
    /\ loop_pc = "none"
    /\ next_runs = <<>>
    /\ loop_now = 0
    /\ items = <<>>
    /\ cur = None
    /\ threads = [db \in DBNames |-> <<>>]
    /\ ctl_pc = "idle"
    /\ stop_result = "none"
    /\ skipped = {}
    /\ remove_failed = FALSE
    /\ bucket = {}
    /\ cl = NoCleanup
    /\ call = NoCall

NextCalls ==
    \/ \E db \in CallNames, i \in CallIndexes(schedules),
          f \in FailPoints, nf \in BOOLEAN, email \in Recipients :
           call_perform_backup(db, i, f, nf, email)
    \/ \E db \in CallNames, i \in CallIndexes(schedules) :
           call_get_schedule_info(db, i)
    \/ \E db \in CallNames, pfx \in {None, Daily, Daily2, Weekly} :
           call_get_schedule_by_prefix(db, pfx)
    \/ \E db \in CallNames : call_get_all_schedules_for_database(db)
    \/ \E db \in CallNames, base_time \in CallTimes :
           call_update_next_run(db, base_time)
    \/ \E db \in CallNames, filename \in {FileF, FileG},
          custom_bucket \in {None, CustomBucket},
          custom_prefix \in {None, Daily, Daily2} :
           call_upload_backup(db, filename, custom_bucket, custom_prefix)
    \/ \E db \in CallNames,
          failing \in SUBSET ({NoIndex} \cup (1..Len(schedules))) :
           call_backup_command(db, failing)
    \/ call_get_next_run_times
    \/ call_return

SpecCalls == InitCalls /\ [][NextCalls]_vars

-----------------------------------------------------------------------------
(* Claims about the scheduler *)

InFlight(db) == Len(threads[db])

\* the loop is about to examine the entry of db in this tick
AtEntry(db) == loop_pc = "for" /\ items # <<>> /\ Head(items)[1] = db

\* C1: at most one dispatched run is in flight per key under every
\* interleaving of start, stop, ticks and completions: no db_name ever has
\* two backup threads, and a key with a thread in flight is in the
\* active-run set, which is what makes the tick pass it over.
C1_OneRunPerKey ==
    \A db \in DBNames :
        /\ InFlight(db) <= 1
        /\ InFlight(db) = 1 => db \in active_backups

\* C1 witness: the tick reaches a due entry whose run is still in flight.
C1_Witness ==
    \E db \in DBNames :
        /\ AtEntry(db)
        /\ loop_now >= Head(items)[2]
        /\ db \in active_backups
        /\ InFlight(db) = 1

LoopInitialised == loop_pc \in {"while", "for", "update", "wait"}

ValidSchedules == {i \in 1..Len(schedules) : CronValid(schedules[i].cron_expression)}

\* C5 (as claimed): for a registry whose expressions are all valid, once
\* the loop has initialised the table there is one entry per schedule, two
\* schedules of one data source included, and the entry of a schedule is a
\* fire time of that schedule's own cron expression.
C5_EntryPerSchedule ==
    LoopInitialised /\ cur = None /\ ValidSchedules = 1..Len(schedules) =>
        /\ Len(next_runs) = Len(schedules)
        /\ \A i \in ValidSchedules :
               /\ schedules[i].database_name \in DictKeys(next_runs)
               /\ Fires(schedules[i].cron_expression,
                        DictGet(next_runs, schedules[i].database_name))

\* C6 (as claimed): a run dispatched at a tick uses the schedule that is
\* due: for every schedule S of the data source that has fired by that
\* tick, the upload and the retention cleanup of the run dispatched then
\* carry S's prefix and S's retention_days.
C6_RunUsesDueSchedule ==
    \A db \in DBNames : \A k \in 1..Len(threads[db]) :
        LET th == threads[db][k]
        IN  th.phase = "finally" /\ th.result.cleanup_called =>
                \A i \in th.due :
                    /\ th.result.upload_prefix = schedules[i].prefix
                    /\ th.result.cleanup_prefix = schedules[i].prefix
                    /\ th.result.cleanup_retention = schedules[i].retention_days

C10_NoCatchUp ==
    \A db \in DBNames : \A k \in 1..Len(threads[db]) : ~threads[db][k].catchup

\* C10 (amended): a tick that finds a due key in the active-run set passes
\* it over and leaves its entry as it is; the first tick that finds the
\* key idle again dispatches it, once, for that entry; the entry is then
\* recomputed to a time later than the dispatch, so that however many
\* occurrences were missed a single run makes up for them.
C10_SingleCatchUp ==
    [][\A db \in DBNames :
         /\ (AtEntry(db) /\ db \in active_backups /\ items' = Tail(items)) =>
                /\ next_runs' = next_runs
                /\ threads' = threads
                /\ (loop_now >= Head(items)[2] => db \in skipped')
         /\ (AtEntry(db) /\ db \in skipped /\ db \notin active_backups
                /\ items' = Tail(items)) =>
                /\ InFlight(db)' = InFlight(db) + 1
                /\ threads'[db][InFlight(db)'].catchup
         /\ (loop_pc = "update" /\ cur = db /\ loop_pc' = "for") =>
                /\ DictGet(next_runs', db) > now
                /\ db \notin skipped'
      ]_vars

\* C10 witness: a run is in flight that was dispatched for an entry an
\* earlier tick had passed over.
C10_Witness ==
    \E db \in DBNames :
        /\ InFlight(db) = 1
        /\ threads[db][1].catchup
        /\ db \in active_backups

-----------------------------------------------------------------------------
(* Claims about retention cleanup *)

RECURSIVE Segments(_)
\* the path segments of a key: the pieces between its separators
Segments(s) ==
    IF s = <<>> THEN << <<>> >>
    ELSE LET rest == Segments(Tail(s))
         IN  IF Head(s) = Slash THEN << <<>> >> \o rest
             ELSE << <<Head(s)>> \o rest[1] >> \o Tail(rest)

\* key lies under the directory whose path segments are scope
UnderScope(key, scope) ==
    /\ Len(Segments(key)) > Len(scope)
    /\ SubSeq(Segments(key), 1, Len(scope)) = scope

\* the objects the paginator has handed to the running or finished cleanup
ListedObjects ==
    UNION {Range(cl.pages[p]) : p \in 1..Len(cl.pages)}

\* C2 (as claimed): cleanup for data source D neither enumerates nor
\* deletes an object of another data source: every listed object and every
\* deleted key lies under base/D/, a name that merely starts with D (d10
\* for d1) being another data source.
C2_OwnDataSourceOnly ==
    cl.pc # "idle" =>
        /\ \A o \in ListedObjects :
               UnderScope(o.Key, <<BasePrefix, cl.db_name>>)
        /\ \A i \in 1..Len(cl.delete_calls) :
               UnderScope(cl.delete_calls[i], <<BasePrefix, cl.db_name>>)

\* C3 (as claimed): a cleanup called without a scope selector never
\* deletes an object under a deeper scope base/D/<scope>/: every key it
\* deletes under base/D/ is a file directly in base/D/, whatever schedules
\* D has.
C3_NoDeeperScope ==
    cl.pc # "idle" /\ cl.schedule_prefix = None =>
        \A i \in 1..Len(cl.delete_calls) :
            UnderScope(cl.delete_calls[i], <<BasePrefix, cl.db_name>>) =>
                Len(Segments(cl.delete_calls[i])) = 3

\* C4 (as claimed): for two schedules of one data source with distinct
\* prefixes P1 and P2, the cleanup of scope P1 deletes only keys under
\* base/D/P1/ and none under base/D/P2/.
C4_ScopesDisjoint ==
    \A i, j \in 1..Len(schedules) :
        /\ schedules[i].database_name = schedules[j].database_name
        /\ schedules[i].prefix # None
        /\ schedules[j].prefix # None
        /\ schedules[i].prefix # schedules[j].prefix
        /\ cl.pc # "idle"
        /\ cl.db_name = schedules[i].database_name
        /\ cl.custom_prefix = schedules[i].prefix
        => \A n \in 1..Len(cl.delete_calls) :
               /\ UnderScope(cl.delete_calls[n],
                      <<BasePrefix, cl.db_name, schedules[i].prefix>>)
               /\ ~UnderScope(cl.delete_calls[n],
                      <<BasePrefix, cl.db_name, schedules[j].prefix>>)

Age(o) == now - o.LastModified

\* C7: when a cleanup has finished, a listed object has been deleted if and
\* only if it is strictly older than retention_days days: an object whose
\* age is exactly the retention window is kept, one a day older is gone,
\* and no object that was not listed is touched.
C7_StrictlyOlderDeleted ==
    cl.pc = "done" =>
        /\ \A o \in ListedObjects :
               /\ (o.Key \in Range(cl.deleted_keys))
                      <=> Age(o) > cl.retention_days * MinutesPerDay
               /\ (o \notin bucket)
                      <=> Age(o) > cl.retention_days * MinutesPerDay
        /\ \A o \in cl.bucket0 \ ListedObjects : o \in bucket
        /\ Range(cl.deleted_keys) \subseteq {o.Key : o \in ListedObjects}

\* C7 witness: a finished cleanup that listed an object exactly as old as
\* the retention window and kept it, and one a day older and deleted it.
C7_Witness ==
    /\ cl.pc = "done"
    /\ \E o, p \in ListedObjects :
           /\ Age(o) = cl.retention_days * MinutesPerDay
           /\ o \in bucket
           /\ Age(p) = (cl.retention_days + 1) * MinutesPerDay
           /\ p \notin bucket

\* C8: the list a finished cleanup returns is the sequence of keys
\* delete_object was called with, in call order and over all pages, with
\* no key twice, and these are the keys that left the bucket.
C8_ReturnsDeletedKeys ==
    cl.pc = "done" =>
        /\ cl.deleted_keys = cl.delete_calls
        /\ \A i, j \in 1..Len(cl.deleted_keys) :
               cl.deleted_keys[i] = cl.deleted_keys[j] => i = j
        /\ Range(cl.deleted_keys) = {o.Key : o \in cl.bucket0 \ bucket}

\* C8 witness: a finished cleanup whose listing came in three pages, the
\* middle one without contents, and that deleted objects of the first and
\* of the last page.
C8_Witness ==
    /\ cl.pc = "done"
    /\ Len(cl.pages) = 3
    /\ cl.pages[2] = <<>>
    /\ \E o \in Range(cl.pages[1]), p \in Range(cl.pages[3]) :
           /\ o.Key \in Range(cl.deleted_keys)
           /\ p.Key \in Range(cl.deleted_keys)
           /\ Len(cl.deleted_keys) >= 2

-----------------------------------------------------------------------------
(* Claims about the tick, start and stop *)

\* C11 (as claimed): the entry of a dispatched key is recomputed before its
\* run completes: whenever the loop is about to recompute the entry of the
\* key it has just dispatched, that run is still in flight.
C11_RecomputedBeforeCompletion ==
    loop_pc = "update" => InFlight(cur) >= 1

\* C11 (amended): the step of the loop that follows the dispatch of key K
\* in the tick of time t recomputes K's entry, in that tick and without
\* waiting for the run, to a time strictly later than t; the step that
\* ends a run leaves the table as it is.  The run may already be over when
\* the entry is recomputed.
C11_RecomputedAtDispatch ==
    /\ [](loop_pc = "update" => ENABLED scheduler_loop_update)
    /\ [][\A db \in DBNames :
            /\ (loop_pc = "for" /\ InFlight(db)' > InFlight(db)) =>
                   /\ loop_pc' = "update"
                   /\ cur' = db
                   /\ loop_now' = loop_now
                   /\ next_runs' = next_runs
            /\ (loop_pc = "update" /\ cur = db /\ loop_pc' # "update") =>
                   /\ loop_pc' = "for"
                   /\ loop_now' = loop_now
                   /\ db \in DictKeys(next_runs')
                   /\ DictGet(next_runs', db) > loop_now
                   /\ \A other \in DictKeys(next_runs) \ {db} :
                          DictGet(next_runs', other) = DictGet(next_runs, other)
            /\ InFlight(db)' < InFlight(db) => next_runs' = next_runs
      ]_vars

\* C11 witness: the entry of a key has been recomputed to a later time in
\* the tick that dispatched it, while its run has not yet done anything.
C11_Witness ==
    \E db \in DBNames :
        /\ loop_pc = "for"
        /\ cur = None
        /\ InFlight(db) = 1
        /\ threads[db][1].phase = "perform"
        /\ db \in DictKeys(next_runs)
        /\ DictGet(next_runs, db) > loop_now

\* the loop thread is alive
Running == loop_pc \in {"start", "while", "for", "update", "wait"}

C13_OthersUnaffected ==
    LoopInitialised =>
        \A i \in ValidSchedules :
            schedules[i].database_name \in DictKeys(next_runs)

\* C14: a start_scheduler() that finds the loop thread alive changes
\* nothing at all, and a stop_scheduler() that finds no loop thread alive
\* returns True and changes nothing else: no thread, no stop signal, no
\* table, no run.
C14_StartStopNoOp ==
    [][/\ (start_scheduler /\ Running) => UNCHANGED vars
       /\ \A wait \in BOOLEAN :
              (stop_scheduler(wait) /\ ~Running) =>
                  /\ stop_result' = "true"
                  /\ UNCHANGED <<schedules, now, stop_event, active_backups,
                                 loop_pc, next_runs, loop_now, items, cur,
                                 threads, ctl_pc, skipped, remove_failed,
                                 store_vars>>
      ]_vars

\* C14 witness: stop_scheduler() has returned True on a scheduler that was
\* never started, and no stop signal is raised.
C14_Witness ==
    /\ loop_pc = "none"
    /\ stop_result = "true"
    /\ ctl_pc = "idle"
    /\ ~stop_event

\* C15: a stop_scheduler(wait=True, timeout) that found the loop thread
\* alive raises the stop signal and joins; when it returns, the signal is
\* raised, it returns True only if the loop thread has ended, and it
\* returns False if the loop thread is still alive.
C15_StopResult ==
    [][/\ (stop_scheduler(TRUE) /\ Running) =>
              (stop_event' /\ ctl_pc' = "join" /\ loop_pc' = loop_pc)
       /\ (ctl_pc = "join" /\ ctl_pc' = "idle") =>
              /\ stop_event'
              /\ stop_result' \in {"true", "false"}
              /\ stop_result' = "true" => ~Running'
              /\ Running' => stop_result' = "false"
      ]_vars

\* C15 witness: a stop_scheduler(wait=True) has returned False: its join
\* timed out, the loop thread is alive and the stop signal is raised.
C15_Witness ==
    /\ ctl_pc = "idle"
    /\ stop_result = "false"
    /\ Running
    /\ stop_event

\* C16 (as claimed): once the stop signal is raised the loop dispatches no
\* further run: no step taken with the signal raised starts a backup
\* thread, the rest of a tick that was under way included.
C16_NoDispatchAfterStop ==
    [][stop_event => \A db \in DBNames : InFlight(db)' <= InFlight(db)]_vars

\* C17: stopping cancels nothing: a step of stop_scheduler and the end of
\* the loop thread leave the backup threads and the active-run set as they
\* are; a run in flight can always take its next step, whatever the stop
\* signal and the loop thread; and its key is in the active-run set for as
\* long as the run is in flight.
C17_StopKeepsRuns ==
    /\ [](\A db \in DBNames :
             /\ InFlight(db) >= 1 => db \in active_backups
             /\ \A k \in 1..InFlight(db) :
                    IF threads[db][k].phase = "perform"
                    THEN ENABLED backup_thread_perform(db, k, "none", FALSE)
                    ELSE ENABLED backup_thread_finally(db, k))
    /\ [][/\ ((\E wait \in BOOLEAN : stop_scheduler(wait))
                \/ (\E timed_out \in BOOLEAN :
                        stop_scheduler_joined(timed_out))
                \/ (Running /\ ~Running')) =>
                   (threads' = threads /\ active_backups' = active_backups)
      ]_vars

\* C17 witness: the loop thread has ended after a stop, and a run that was
\* dispatched before has gone through all its steps with success and is
\* about to remove its key, which is still in the set.
C17_Witness ==
    \E db \in DBNames :
        /\ loop_pc = "dead"
        /\ stop_event
        /\ InFlight(db) = 1
        /\ threads[db][1].phase = "finally"
        /\ threads[db][1].result.status = "success"
        /\ db \in active_backups

-----------------------------------------------------------------------------
(* Claims about perform_backup *)

\* the results of the runs that have returned or raised
Results ==
    UNION {{threads[db][k].result :
               k \in {i \in 1..Len(threads[db]) :
                         threads[db][i].phase = "finally"}} :
           db \in DBNames}

\* C18: a run whose artifact production fails aborts: upload_backup is not
\* called, the retention cleanup is not called, the failure notification
\* is invoked, and perform_backup raises the error of the dump.
C18_DumpFailureAborts ==
    \A r \in Results :
        (r.error # "not_found" /\ ~r.dumped) =>
            /\ ~r.upload_called
            /\ ~r.uploaded
            /\ ~r.remove_called
            /\ ~r.cleanup_called
            /\ r.notified = "failure"
            /\ r.status = "raised"
            /\ r.error = "dump"

\* C18 witness: a run whose dump failed has raised.
C18_Witness ==
    \E r \in Results : r.error = "dump" /\ ~r.dumped /\ r.status = "raised"

\* C19: a run whose upload fails aborts on the failure path: the failure
\* notification is invoked and the error of the upload is raised, os.remove
\* is not called, so that the local artifact stays, and the retention
\* cleanup is not called, so that the run deletes no remote artifact.
C19_UploadFailureAborts ==
    \A r \in Results :
        (r.upload_called /\ ~r.uploaded) =>
            /\ r.status = "raised"
            /\ r.error = "upload"
            /\ r.notified = "failure"
            /\ ~r.remove_called
            /\ ~r.local_removed
            /\ ~r.cleanup_called

\* C19 witness: a run that produced its artifact and whose upload failed
\* has raised.
C19_Witness ==
    \E r \in Results :
        r.dumped /\ r.upload_called /\ ~r.uploaded /\ r.error = "upload"

\* C20 (as claimed): a run whose upload succeeded and whose os.remove of
\* the local artifact failed still calls the retention cleanup, invokes
\* the success notification and returns with status success.
C20_RemoveFailureNonFatal ==
    \A r \in Results :
        (r.uploaded /\ r.remove_called /\ ~r.local_removed) =>
            /\ r.cleanup_called
            /\ r.notified = "success"
            /\ r.status = "success"


-----------------------------------------------------------------------------
(* Claims about the outcome of perform_backup, on single calls *)

PerformCall == call.op = "perform_backup"

\* C21: when the retention cleanup fails after the upload succeeded and the
\* local file was removed, the run ends as a failure: the cleanup's error is
\* raised to the caller, the failure notification is invoked, and neither a
\* success result nor a success notification is produced
C21_CleanupFailureFails ==
    (/\ PerformCall
     /\ call.result.uploaded
     /\ call.result.cleanup_called
     /\ call.fail_at = "cleanup")
    => /\ call.result.status = "raised"
       /\ call.result.error = "cleanup"
       /\ call.result.notified = "failure"

\* C21 witness: a run whose upload succeeded and whose cleanup was called
\* and failed has ended
C21_Witness ==
    /\ PerformCall
    /\ call.result.uploaded
    /\ call.result.local_removed
    /\ call.result.cleanup_called
    /\ call.fail_at = "cleanup"
    /\ call.result.status = "raised"

\* C22: a failing notifier never changes the outcome of a run: a run none
\* of whose steps fails still returns the success result, and a run with a
\* failing step still raises that step's error, not the notifier's
C22_NotifierNeverChangesOutcome ==
    (PerformCall /\ call.notify_fails /\ call.db_name \in databases)
    => /\ call.fail_at = "none"
          => /\ call.result.status = "success"
             /\ call.result.error = "none"
       /\ call.fail_at # "none"
          => /\ call.result.status = "raised"
             /\ call.result.error = call.fail_at

\* C22 witness: a run whose upload failed and whose failure notification
\* failed too has raised the upload's error
C22_Witness ==
    /\ PerformCall
    /\ call.notify_fails
    /\ call.fail_at = "upload"
    /\ call.result.notified = "failure"
    /\ call.result.error = "upload"

\* C23 as stated: perform_backup for a data source that is not configured
\* fails with not-found before any dump, upload or cleanup, and no
\* notification at all is sent
C23_NotFoundSendsNothing ==
    (PerformCall /\ call.db_name \notin databases)
    => /\ call.result.status = "raised"
       /\ call.result.error = "not_found"
       /\ ~call.result.dumped
       /\ ~call.result.upload_called
       /\ ~call.result.cleanup_called
       /\ call.result.notified = "none"


-----------------------------------------------------------------------------
(* Claims about the schedule lookups, on single calls *)

\* the positions of the schedules of the data source a call names
OwnSchedules == {i \in 1..Len(schedules) :
                    schedules[i].database_name = call.db_name}

\* a lookup by an index whose schedule belongs to another data source
IndexMismatch ==
    /\ call.op = "get_schedule_info"
    /\ call.schedule_index \in 1..Len(schedules)
    /\ schedules[call.schedule_index].database_name # call.db_name

C25_DefaultWhenNoSchedule ==
    /\ (call.op = "get_schedule_info" /\ OwnSchedules = {})
       => call.result = DefaultSchedule
    /\ (call.op = "get_all_schedules_for_database" /\ OwnSchedules = {})
       => call.result = <<DefaultSchedule>>
    /\ call.op = "get_schedule_by_prefix"
       => LET m == {i \in OwnSchedules : schedules[i].prefix = call.prefix}
          IN  IF m = {} THEN call.result = DefaultSchedule
              ELSE call.result = ScheduleInfo(schedules, Min(m))

\* C25 witness: a lookup by a scope that only a schedule of another data
\* source has, for a data source without schedules, has given the default
C25_Witness ==
    /\ call.op = "get_schedule_by_prefix"
    /\ OwnSchedules = {}
    /\ \E i \in 1..Len(schedules) : schedules[i].prefix = call.prefix
    /\ call.result = DefaultSchedule
    /\ call.result.retention_days = RetentionDefault
    /\ call.result.cron_expression = None


-----------------------------------------------------------------------------
(* Claims about the evaluation of cron expressions, on single calls *)

\* the schedule _update_next_run evaluates for the data source of the call
CallSchedule == schedules[Min(OwnSchedules)]

\* a call of _update_next_run that has produced a next run time
NextRunCall == call.op = "update_next_run" /\ call.result # <<>>

\* the next run time the call has produced
NextRunOfCall == call.result[1][2]

\* C26 as stated: for every valid five-field expression and every reference
\* instant t the computed next run time is strictly greater than t, and the
\* computation applied to its own result gives a strictly later instant
C26_NextRunAfterReference ==
    NextRunCall
    => /\ NextRunOfCall > call.base_time
       /\ next_run_time(CallSchedule.cron_expression, NextRunOfCall, now)
              > NextRunOfCall

\* C27: an expression whose number of fields is not five is rejected
\* wherever it is evaluated: _update_next_run returns without an entry for
\* it, and get_next_run_times returns with an error entry that carries no
\* next run time; neither call raises
C27_MalformedRejected ==
    /\ (/\ call.op = "update_next_run"
        /\ OwnSchedules # {}
        /\ Len(CallSchedule.cron_expression) # 5)
       => call.result = <<>>
    /\ call.op = "get_next_run_times"
       => \A i \in 1..Len(schedules) :
              Len(schedules[i].cron_expression) # 5
              => LET db == schedules[i].database_name
                     entry == next_run_entry(schedules[i], active_backups,
                                             now)
                 IN  /\ "error" \in DOMAIN entry
                     /\ "next_run" \notin DOMAIN entry
                     /\ LastScheduleIndex(schedules, db) = i
                        => DictGet(call.result, db) = entry

\* C27 witness: get_next_run_times has returned with an error entry for a
\* data source whose only schedule has six fields
C27_Witness ==
    /\ call.op = "get_next_run_times"
    /\ \E i \in 1..Len(schedules) :
           /\ Len(schedules[i].cron_expression) = 6
           /\ "error" \in DOMAIN DictGet(call.result,
                                         schedules[i].database_name)

\* C28 as stated: the next run time computed for a passed base_time is the
\* first instant after base_time at which the expression fires, whatever
\* the wall-clock time of the evaluation; for "0 3 * * *" and the base time
\* 2024-01-01 04:00 it is 2024-01-02 03:00
C28_FirstFireAfterBaseTime ==
    NextRunCall
    => /\ NextRunOfCall = NextFire(CallSchedule.cron_expression,
                                   call.base_time)
       /\ (/\ CallSchedule.cron_expression = CronDaily3
           /\ call.base_time = 4 * 60)
          => NextRunOfCall = MinutesPerDay + 3 * 60

\* C29 as stated: the evaluation is deterministic: an evaluation of the same
\* expression for the same reference instant at any other wall-clock time,
\* with any set of active runs, gives the same result
C29_SameAtAnyWallClock ==
    call.op = "update_next_run"
    => \A wall \in CallTimes :
           update_next_run_at(<<>>, schedules, call.db_name,
                              call.base_time, wall) = call.result


\* C30 as stated: get_next_run_times returns one entry per configured
\* schedule, each with the cron expression and the retention of its own
\* schedule, and the is_active flag of an entry tells whether the key of
\* that schedule is in the set of active runs at the time of the call
C30_EntryPerSchedule ==
    call.op = "get_next_run_times"
    => /\ Len(call.result) = Len(schedules)
       /\ \A i \in 1..Len(schedules) :
              \E k \in 1..Len(call.result) :
                  /\ call.result[k][1] = schedules[i].database_name
                  /\ call.result[k][2].cron_expression
                         = schedules[i].cron_expression
                  /\ "next_run" \in DOMAIN call.result[k][2]
                     => /\ call.result[k][2].retention_days
                               = schedules[i].retention_days
                        /\ call.result[k][2].is_active
                               = (schedules[i].database_name
                                      \in active_backups)


-----------------------------------------------------------------------------
(* Claims about the orchestrator and the store, on single calls *)

\* C31: the key of an uploaded file is base_prefix/db_name/filename without
\* a schedule prefix and base_prefix/db_name/schedule_prefix/filename with
\* one; the upload goes to the bucket override of the database when it has
\* one and to the default bucket otherwise, and the key is the same for
\* either bucket
C31_UploadKeyAndBucket ==
    call.op = "upload_backup"
    => /\ call.result.s3_key =
              IF call.custom_prefix = None
              THEN BasePrefix \o <<Slash>> \o call.db_name \o <<Slash>>
                       \o call.filename
              ELSE BasePrefix \o <<Slash>> \o call.db_name \o <<Slash>>
                       \o call.custom_prefix \o <<Slash>> \o call.filename
       /\ call.result.bucket_name =
              IF call.custom_bucket = None THEN DefaultBucket
              ELSE call.custom_bucket
       /\ \A b \in {None, CustomBucket} :
              upload_backup(call.db_name, call.filename, b,
                            call.custom_prefix).s3_key = call.result.s3_key

\* C31 witness: an upload with a schedule prefix and a bucket override has
\* gone to the override under the four-part key
C31_Witness ==
    /\ call.op = "upload_backup"
    /\ call.custom_prefix = Daily
    /\ call.custom_bucket = CustomBucket
    /\ call.result.bucket_name = CustomBucket
    /\ call.result.s3_key = path_join4(BasePrefix, call.db_name, Daily,
                                       call.filename)


\* C32 as stated: when the backup command is run for a configured database
\* and a call of perform_backup raises, the command exits with status 1,
\* whether the database has no schedule or has schedules
C32_FailedBackupExitsOne ==
    (/\ call.op = "backup_command"
     /\ call.db_name \in databases
     /\ \E k \in 1..Len(call.result.outcomes) :
            call.result.outcomes[k] = "raised")
    => call.result.exit_status = 1


\* the position of a step in the steps of the call, 0 when it did not start
StepAt(st) ==
    IF \E k \in 1..Len(call.steps) : call.steps[k] = st
    THEN CHOOSE k \in 1..Len(call.steps) : call.steps[k] = st
    ELSE 0

\* C33: a run that succeeds has produced the artifact, uploaded it, deleted
\* the local file, run the retention cleanup, invoked the success
\* notification and returned the result, each exactly once and in this
\* order; and in no run does a step start after an earlier step has failed
C33_StepsInOrder ==
    PerformCall
    => /\ call.result.status = "success"
          => call.steps = <<"dump", "upload", "remove", "cleanup",
                            "notify_success", "return">>
       /\ \A j, k \in 1..Len(call.steps) :
              (j # k) => call.steps[j] # call.steps[k]
       /\ StepAt("dump") # 0 /\ StepAt("upload") # 0
          => StepAt("dump") < StepAt("upload") /\ call.result.dumped
       /\ StepAt("upload") # 0 /\ StepAt("remove") # 0
          => StepAt("upload") < StepAt("remove") /\ call.result.uploaded
       /\ StepAt("remove") # 0 /\ StepAt("cleanup") # 0
          => /\ StepAt("remove") < StepAt("cleanup")
             /\ call.result.local_removed
       /\ StepAt("cleanup") # 0 /\ StepAt("notify_success") # 0
          => /\ StepAt("cleanup") < StepAt("notify_success")
             /\ call.fail_at # "cleanup"
       /\ StepAt("notify_success") # 0
          => StepAt("return") = StepAt("notify_success") + 1
       /\ StepAt("upload") # 0 => StepAt("dump") # 0
       /\ StepAt("remove") # 0 => StepAt("upload") # 0
       /\ StepAt("cleanup") # 0 => StepAt("remove") # 0
       /\ StepAt("notify_success") # 0 => StepAt("cleanup") # 0

\* C33 witness: a run has gone through all six steps and returned
C33_Witness ==
    /\ PerformCall
    /\ call.result.status = "success"
    /\ Len(call.steps) = 6
    /\ call.steps[6] = "return"


-----------------------------------------------------------------------------
(* Claims about restarting the scheduler and runs that do not end *)

\* C35 as stated: start_scheduler issued after a stop_scheduler(wait=False),
\* or after a stop_scheduler(wait=True, timeout) that returned False, leaves
\* the scheduler running: when it returns a loop thread is alive and the
\* stop signal is cleared.  The stop signal is raised and the caller is idle
\* exactly when the last call that changed anything was such a stop
C35_StartAfterStopRuns ==
    (ctl_pc = "idle" /\ stop_event)
    => ~ENABLED (start_scheduler /\ ~(Running' /\ ~stop_event'))


\* C34: runs in flight, even runs that never finish, do not hold up the
\* loop: a loop thread that is alive always has its next step to take; an
\* entry that is due and whose key is not active is dispatched by the step
\* that examines it while runs of other keys are in flight; and once the
\* stop signal is raised the loop thread ends, without any step of a run
C34_LoopNeverWaitsForRuns ==
    /\ [](Running => ENABLED LoopStep)
    /\ [][\A db \in DBNames :
            (/\ AtEntry(db)
             /\ loop_now >= Head(items)[2]
             /\ db \notin active_backups
             /\ \E other \in DBNames \ {db} : InFlight(other) >= 1
             /\ scheduler_loop_for)
            => /\ InFlight(db)' = InFlight(db) + 1
               /\ \A other \in DBNames \ {db} :
                      threads'[other] = threads[other]]_vars
    /\ (Running /\ stop_event) ~> ~Running

\* C34 witness: the loop has just dispatched d2 while the run of d1,
\* dispatched before it, is still performing
C34_Witness ==
    /\ InFlight(DB1) = 1
    /\ threads[DB1][1].phase = "perform"
    /\ InFlight(DB2) = 1
    /\ cur = DB2
    /\ loop_pc = "update"


\* C36: the active-run set survives a stop and a start: the start of a new
\* loop thread and its computation of next_runs leave the set and the runs
\* as they are, the key of a run in flight is in the set, and no loop,
\* restarted or not, dispatches a key that has a run in flight
C36_ActiveSetSurvivesRestart ==
    /\ [](\A db \in DBNames : InFlight(db) >= 1 => db \in active_backups)
    /\ [][/\ (loop_pc # "start" /\ loop_pc' = "start")
             => (active_backups' = active_backups /\ threads' = threads)
          /\ (loop_pc = "start" /\ loop_pc' # "start")
             => (active_backups' = active_backups /\ threads' = threads)
          /\ \A db \in DBNames :
                 InFlight(db)' > InFlight(db)
                 => (InFlight(db) = 0 /\ db \notin active_backups)
      ]_vars

\* C36 witness: a loop thread has been started again after a stop and has
\* not taken a step yet, while a run dispatched by the loop before it is
\* still performing with its key in the set
C36_Witness ==
    /\ loop_pc = "start"
    /\ ~stop_event
    /\ stop_result # "none"
    /\ \E db \in DBNames :
           /\ InFlight(db) = 1
           /\ threads[db][1].phase = "perform"
           /\ db \in active_backups


\* C37 as stated: in every reachable state the active-run set is the set of
\* the keys that have a dispatched run thread not yet finished, also when
\* starting a run thread has failed, and no removal at the end of a run has
\* found its key absent
C37_ActiveSetIsRunsInFlight ==
    /\ \A db \in DBNames : db \in active_backups <=> InFlight(db) >= 1
    /\ ~remove_failed


-----------------------------------------------------------------------------
(* Claims about the storage part of a run *)

\* C38 as stated: the retention cleanup of a run never deletes the object
\* the same run has just uploaded, whatever retention_days the
\* configuration gives, 0 included
C38_UploadedArtifactKept ==
    cl.pc \in {"pages", "done", "raised"}
    => /\ \A i \in 1..Len(cl.delete_calls) :
              cl.delete_calls[i] # cl.uploaded_key
       /\ \E o \in bucket : o.Key = cl.uploaded_key


\* C39: with a notification recipient configured, each call of perform_backup
\* invokes exactly one notification of the notifier: the success notification
\* if and only if the call returns a result, the failure notification if and
\* only if it raises, never both; with no recipient configured the notifier
\* is not invoked at all
C39_ExactlyOneNotification ==
    PerformCall
    => /\ call.notifier_called \in {"none", "success", "failure"}
       /\ call.notifications_email # None
          => /\ call.notifier_called # "none"
             /\ call.notifier_called = "success"
                <=> call.result.status = "success"
             /\ call.notifier_called = "failure"
                <=> call.result.status = "raised"
       /\ call.notifications_email = None
          => call.notifier_called = "none"

\* C39 witness: a run with a recipient configured whose cleanup failed: it
\* raised, the failure notification reached the notifier and the success
\* notification did not
C39_Witness ==
    /\ PerformCall
    /\ call.notifications_email = Recipient
    /\ call.fail_at = "cleanup"
    /\ call.result.status = "raised"
    /\ call.result.uploaded
    /\ call.notifier_called = "failure"


\* C40: when a delete fails during the retention cleanup after some artifacts
\* were already deleted, the cleanup raises at that step and returns no list,
\* no further delete is issued, the artifacts deleted before the failure stay
\* deleted, and the artifact of the failed delete and those not yet visited
\* are still in the store unchanged
C40_FailedDeleteStopsCleanup ==
    /\ [][(/\ cl.pc = "pages"
           /\ Len(cl'.delete_calls) = Len(cl.delete_calls) + 1
           /\ cl'.deleted_keys = cl.deleted_keys)
          => (/\ cl'.pc = "raised"
              /\ bucket' = bucket)]_vars
    /\ [](cl.pc = "raised"
          => /\ ~ENABLED cleanup_step
             /\ ~ENABLED cleanup_delete_fails
             /\ Len(cl.delete_calls) = Len(cl.deleted_keys) + 1
             /\ bucket = {o \in cl.bucket0 :
                             \A i \in 1..Len(cl.deleted_keys) :
                                 cl.deleted_keys[i] # o.Key}
             /\ \A p \in cl.page..Len(cl.pages) :
                    \A j \in 1..Len(cl.pages[p]) :
                        (p > cl.page \/ j >= cl.obj)
                        => cl.pages[p][j] \in bucket)

\* C40 witness: a cleanup that raised at its second delete: one artifact is
\* deleted, and an artifact after the one of the failed delete was never
\* visited
C40_Witness ==
    /\ cl.pc = "raised"
    /\ Len(cl.deleted_keys) = 1
    /\ Len(cl.delete_calls) = 2
    /\ \E p \in cl.page..Len(cl.pages) :
           \E j \in 1..Len(cl.pages[p]) :
               /\ p > cl.page \/ j > cl.obj
               /\ is_old(cl.pages[p][j], cl.cutoff_date)

====
